---- MODULE Spec2Model ----
(***************************************************************************)
(* A model of the generic resource pool of src/gpt_pool_mod.rs: the        *)
(* capacity gate (tokio Semaphore), the idle store (Mutex<VecDeque>), the  *)
(* acquisition pipeline (Pool::acquire, pop_idle_healthy), the release     *)
(* task spawned by Drop for PoolConnection, the maintenance task spawned   *)
(* by Pool::new (cleanup_idle_with) and the shutdown controller            *)
(* (Pool::close).  One step of the model is the code between two           *)
(* suspension points of one task.  The semaphore is never closed, so       *)
(* PoolExhausted does not occur.  Tasks that wait on the CloseEvent helper *)
(* (Pool::close_event, CloseEvent::notified) are part of the model, and so *)
(* are the Pool values the application holds (Clone for Pool), their drops *)
(* and the shutdown task that Drop for Pool spawns on the last reference.  *)
(***************************************************************************)
EXTENDS Integers, Sequences, FiniteSets, TLC

\* ---------------------------------------------------------------- bounds
\* Number of close() calls made on the pool.
NumClosers == 2
\* The clock runs from 0 to MaxTime.
MaxTime == 2
\* Number of tasks that call CloseEvent::notified() and await the future.
NumWaiters == 1
\* Number of Pool values the application can hold: the one Pool::new returns
\* and its clones.
NumOwners == 2

\* ------------------------------------------------------------- constants
\* make_options(): max_connections: 1
max_connections == 1

\* The acquire calls made on the pool, each by its own task: one more than the
\* capacity, so that the gate can be exhausted and waited on.
Acquirers == 1..(max_connections + 1)
Closers == 1..NumClosers
Waiters == 1..NumWaiters
Owners == 1..NumOwners
\* A factory call produces the next unused resource id; every acquire calls
\* its factory at most once.
Resources == Acquirers
NoRes == 0
None == -1

\* PoolOptions.idle_timeout / max_lifetime: None, or a duration in clock units
\* (make_options sets both, idle_timeout the shorter; the second choice lets
\* max_lifetime decide alone).
OptionChoices ==
    { [idle_timeout |-> 1, max_lifetime |-> 2],
      [idle_timeout |-> None, max_lifetime |-> 1] }

\* PoolHooks: which of the three optional hooks are configured
\* (Pool::new: hooks: None; Pool::new_with_hooks: hooks: Some(hooks)).
HookChoices ==
    { [after_create |-> FALSE, before_acquire |-> FALSE, after_release |-> FALSE],
      [after_create |-> TRUE, before_acquire |-> TRUE, after_release |-> TRUE] }

VARIABLES
    options,        \* PoolInner.options (idle_timeout, max_lifetime)
    hooks,          \* PoolInner.hooks
    now,            \* the clock read by Instant::now() and since.elapsed()
    permits,        \* PoolInner.semaphore: permits available
    idle,           \* PoolInner.idle: sequence of [res, since]
    idleLock,       \* holder of the idle Mutex across a suspension (0 = free)
    is_closed,      \* PoolInner.is_closed
    mhandle,        \* PoolInner.maintenance_handle holds Some(handle)
    mhLock,         \* holder of the maintenance_handle Mutex (0 = free)
    acq,            \* per acquire call: position, permit, popped (res, since),
                    \* Notified, the Pool value borrowed, deadline passed
    maint,          \* the maintenance task
    cls,            \* per close() call: position and the entry being closed
    nextRes,        \* next resource id the factory produces
    closeCalls,     \* per resource: number of R::close invocations
    drained,        \* resources popped from the idle store by close()
    ev,             \* per CloseEvent waiter: position and its future
    own,            \* per Pool value of the application: its life cycle
    sd              \* the shutdown task spawned by Drop for Pool

vars == <<options, hooks, now, permits, idle, idleLock, is_closed, mhandle,
          mhLock, acq, maint, cls, nextRes, closeCalls, drained, ev, own, sd>>

Init ==
    /\ options \in OptionChoices
    /\ hooks \in HookChoices
    /\ now = 0
    /\ permits = max_connections
    /\ idle = <<>>
    /\ idleLock = 0
    /\ is_closed = FALSE
    /\ mhandle = TRUE
    /\ mhLock = 0
    /\ acq = [i \in Acquirers |->
                [pc |-> "start", permit |-> FALSE, res |-> NoRes, since |-> None,
                 sig |-> FALSE, afterClose |-> FALSE, pendingAtClose |-> FALSE,
                 via |-> 0, expired |-> FALSE]]
    /\ maint = [pc |-> "spawned", sig |-> FALSE, drained |-> <<>>, keep |-> <<>>]
    /\ cls = [j \in Closers |-> [pc |-> "start", res |-> NoRes]]
    /\ nextRes = 1
    /\ closeCalls = [r \in Resources |-> 0]
    /\ drained = {}
    /\ ev = [w \in Waiters |->
               [pc |-> "start", sig |-> FALSE, early |-> FALSE, sawClosed |-> FALSE]]
    /\ own = [o \in Owners |-> IF o = 1 THEN "held" ELSE "none"]
    /\ sd = [pc |-> "none", all |-> <<>>]

\* Mutant of Expired: an entry is expired from the limit on (>= in place of >).
Expired_AtLimit(since) ==
    \/ options.max_lifetime # None /\ now - since >= options.max_lifetime
    \/ options.idle_timeout # None /\ now - since >= options.idle_timeout

\* since.elapsed() > max_lifetime, or since.elapsed() > idle_timeout, for the
\* options that are set (None: the check is skipped).
Expired(since) ==
    \/ options.max_lifetime # None /\ now - since > options.max_lifetime
    \/ options.idle_timeout # None /\ now - since > options.idle_timeout

\* R::close is invoked on resource r.
RClose(r) == closeCalls' = [closeCalls EXCEPT ![r] = @ + 1]

\* Arc::strong_count(&inner): the Pool values of the application (one being
\* dropped still holds its reference), the Pool clone inside every handle and
\* every release task, the Arc the maintenance task holds from its
\* weak.upgrade() until it returns, and the clone moved into the shutdown task.
StrongCount ==
    Cardinality({o \in Owners : own[o] \in {"held", "dropping"}})
    + Cardinality({i \in Acquirers :
                     acq[i].pc \in {"handle", "release", "after_release",
                                    "release_rejected", "destroy", "requeue"}})
    + (IF maint.pc \in {"first_tick", "select", "pass"} THEN 1 ELSE 0)
    + (IF sd.pc \notin {"none", "done"} THEN 1 ELSE 0)

\* Drop for Pool: if Arc::strong_count(&self.inner) == 1, the shutdown task is
\* spawned with a clone of inner; the value of sd after the drop.
AfterPoolDrop ==
    IF StrongCount = 1 THEN [pc |-> "latch", all |-> <<>>] ELSE sd

\* Positions of an acquire call that has not returned: it borrows the Pool
\* value it was called on.
CallPcs ==
    {"entered", "wait", "pop", "health", "stale", "before_acquire", "rejected",
     "create", "after_create"}

\* ------------------------------------------------------------ Pool::acquire
\* Mutant of AcquireStart: the fast-fail check is missing.
AcquireStart_NoFastFail(i) ==
    /\ acq[i].pc = "start"
    /\ IF i = 1 THEN TRUE ELSE acq[i - 1].pc # "start"
    /\ \E o \in Owners :
         /\ own[o] = "held"
         /\ acq' = [acq EXCEPT ![i].pc = "entered", ![i].via = o,
                               ![i].afterClose =
                                   \E j \in Closers : cls[j].pc = "returned"]
    /\ UNCHANGED <<own, sd, ev, options, hooks, now, permits, idle, idleLock, is_closed, mhandle,
                   mhLock, maint, cls, nextRes, closeCalls, drained>>

\* Fast-fail: the load of is_closed at the top of acquire.  Acquire calls are
\* numbered in the order they are invoked; an acquire invoked after a close()
\* has returned is marked afterClose.  The call is made on a Pool value the
\* application holds (via).
AcquireStart(i) ==
    /\ acq[i].pc = "start"
    /\ IF i = 1 THEN TRUE ELSE acq[i - 1].pc # "start"
    /\ \E o \in Owners :
         /\ own[o] = "held"
         /\ acq' = [acq EXCEPT ![i].pc = IF is_closed THEN "PoolClosed"
                                          ELSE "entered",
                               ![i].via = o,
                               ![i].afterClose =
                                   \E j \in Closers : cls[j].pc = "returned"]
    /\ UNCHANGED <<own, sd, ev, options, hooks, now, permits, idle, idleLock, is_closed, mhandle,
                   mhLock, maint, cls, nextRes, closeCalls, drained>>

\* First poll of timeout(select!{..}): the Notified future and the semaphore
\* Acquire future are created; the Notified receives every later
\* notify_waiters().
AcquireArm(i) ==
    /\ acq[i].pc = "entered"
    /\ acq' = [acq EXCEPT ![i].pc = "wait", ![i].sig = FALSE]
    /\ UNCHANGED <<own, sd, ev, options, hooks, now, permits, idle, idleLock, is_closed, mhandle,
                   mhLock, maint, cls, nextRes, closeCalls, drained>>

\* select! branch: acquire_owned() yields a permit.  select! polls its branches
\* in random order, so this branch can win while the Notified is ready too.
AcquirePermit(i) ==
    /\ acq[i].pc = "wait"
    /\ permits > 0
    /\ permits' = permits - 1
    /\ acq' = [acq EXCEPT ![i].pc = "pop", ![i].permit = TRUE]
    /\ UNCHANGED <<own, sd, ev, options, hooks, now, idle, idleLock, is_closed, mhandle,
                   mhLock, maint, cls, nextRes, closeCalls, drained>>

\* select! branch: shutdown.notified() completes: Err("Pool closed").
AcquireShutdown(i) ==
    /\ acq[i].pc = "wait"
    /\ acq[i].sig
    /\ acq' = [acq EXCEPT ![i].pc = "PoolClosed"]
    /\ UNCHANGED <<own, sd, ev, options, hooks, now, permits, idle, idleLock, is_closed, mhandle,
                   mhLock, maint, cls, nextRes, closeCalls, drained>>

\* Mutant of AcquireTimeout: the timer is polled before the select!, so the
\* timeout is returned although the shutdown branch is ready.
AcquireTimeout_BeforeSelect(i) ==
    /\ acq[i].pc = "wait"
    /\ permits = 0
    /\ acq' = [acq EXCEPT ![i].pc = "Timeout"]
    /\ UNCHANGED <<own, sd, ev, options, hooks, now, permits, idle, idleLock, is_closed, mhandle,
                   mhLock, maint, cls, nextRes, closeCalls, drained>>

\* tokio::time::timeout elapses: the inner future is polled first, so the
\* timeout is returned only when neither branch is ready.
AcquireTimeout(i) ==
    /\ acq[i].pc = "wait"
    /\ ~acq[i].sig
    /\ permits = 0
    /\ acq' = [acq EXCEPT ![i].pc = "Timeout"]
    /\ UNCHANGED <<own, sd, ev, options, hooks, now, permits, idle, idleLock, is_closed, mhandle,
                   mhLock, maint, cls, nextRes, closeCalls, drained>>

\* Mutant of PopIdle: the head entry is read (front().cloned()) but stays in
\* the idle store.
PopIdle_LeavesEntry(i) ==
    /\ acq[i].pc = "pop"
    /\ idleLock = 0
    /\ IF idle = <<>>
       THEN /\ acq' = [acq EXCEPT ![i].pc = "create"]
            /\ UNCHANGED idle
       ELSE /\ UNCHANGED idle
            /\ acq' = [acq EXCEPT ![i].pc = IF Expired(Head(idle).since)
                                            THEN "stale" ELSE "health",
                                  ![i].res = Head(idle).res,
                                  ![i].since = Head(idle).since]
    /\ UNCHANGED <<own, sd, ev, options, hooks, now, permits, idleLock, is_closed, mhandle,
                   mhLock, maint, cls, nextRes, closeCalls, drained>>

\* One iteration of pop_idle_healthy up to its first suspension: lock,
\* pop_front, unlock; None leaves the loop towards the factory; an expired
\* entry goes on to res.close(), any other to the health check.
PopIdle(i) ==
    /\ acq[i].pc = "pop"
    /\ idleLock = 0
    /\ IF idle = <<>>
       THEN /\ acq' = [acq EXCEPT ![i].pc = "create"]
            /\ UNCHANGED idle
       ELSE /\ idle' = Tail(idle)
            /\ acq' = [acq EXCEPT ![i].pc = IF Expired(Head(idle).since)
                                            THEN "stale" ELSE "health",
                                  ![i].res = Head(idle).res,
                                  ![i].since = Head(idle).since]
    /\ UNCHANGED <<own, sd, ev, options, hooks, now, permits, idleLock, is_closed, mhandle,
                   mhLock, maint, cls, nextRes, closeCalls, drained>>

\* res.is_healthy().await in pop_idle_healthy; a healthy entry goes to the
\* before_acquire hook when one is set, and into a PoolConnection otherwise;
\* an unhealthy one goes on to res.close().
HealthCheck(i) ==
    /\ acq[i].pc = "health"
    /\ \E healthy \in BOOLEAN :
         acq' = [acq EXCEPT ![i].pc = IF ~healthy THEN "stale"
                                      ELSE IF hooks.before_acquire
                                           THEN "before_acquire" ELSE "handle",
                            ![i].since = IF healthy /\ ~hooks.before_acquire
                                         THEN None ELSE @]
    /\ UNCHANGED <<own, sd, ev, options, hooks, now, permits, idle, idleLock, is_closed, mhandle,
                   mhLock, maint, cls, nextRes, closeCalls, drained>>

\* Mutant of CloseStale: after res.close() the entry is returned to the caller
\* (the continue is missing), so the acquire hands out the closed resource.
CloseStale_ReturnsResource(i) ==
    /\ acq[i].pc = "stale"
    /\ RClose(acq[i].res)
    /\ acq' = [acq EXCEPT ![i].pc = "handle", ![i].since = None]
    /\ UNCHANGED <<own, sd, ev, options, hooks, now, permits, idle, idleLock, is_closed, mhandle,
                   mhLock, maint, cls, nextRes, drained>>

\* pop_idle_healthy: let _ = res.close().await on an expired or unhealthy
\* entry; the loop continues with the next pop.
CloseStale(i) ==
    /\ acq[i].pc = "stale"
    /\ RClose(acq[i].res)
    /\ acq' = [acq EXCEPT ![i].pc = "pop", ![i].res = NoRes, ![i].since = None]
    /\ UNCHANGED <<own, sd, ev, options, hooks, now, permits, idle, idleLock, is_closed, mhandle,
                   mhLock, maint, cls, nextRes, drained>>

\* Mutant of BeforeAcquire: the hook's error is propagated (cb(..).await?); the
\* resource and the permit are dropped.
BeforeAcquire_SurfacesError(i) ==
    /\ acq[i].pc = "before_acquire"
    /\ \E out \in {"true", "false", "err"} :
         IF out = "err"
         THEN /\ acq' = [acq EXCEPT ![i].pc = "HookError", ![i].res = NoRes,
                                    ![i].since = None, ![i].permit = FALSE]
              /\ permits' = permits + 1
         ELSE /\ acq' = [acq EXCEPT ![i].pc = IF out = "true" THEN "handle"
                                               ELSE "rejected",
                                    ![i].since = IF out = "true" THEN None ELSE @]
              /\ UNCHANGED permits
    /\ UNCHANGED <<own, sd, ev, options, hooks, now, idle, idleLock, is_closed, mhandle,
                   mhLock, maint, cls, nextRes, closeCalls, drained>>

\* before_acquire hook: Ok(true) returns the resource; Ok(false) | Err(_)
\* goes on to res.close().
BeforeAcquire(i) ==
    /\ acq[i].pc = "before_acquire"
    /\ \E out \in {"true", "false", "err"} :
         acq' = [acq EXCEPT ![i].pc = IF out = "true" THEN "handle" ELSE "rejected",
                            ![i].since = IF out = "true" THEN None ELSE @]
    /\ UNCHANGED <<own, sd, ev, options, hooks, now, permits, idle, idleLock, is_closed, mhandle,
                   mhLock, maint, cls, nextRes, closeCalls, drained>>

\* Ok(false) | Err(_) => { let _ = res.close().await; continue; }
CloseRejected(i) ==
    /\ acq[i].pc = "rejected"
    /\ RClose(acq[i].res)
    /\ acq' = [acq EXCEPT ![i].pc = "pop", ![i].res = NoRes, ![i].since = None]
    /\ UNCHANGED <<own, sd, ev, options, hooks, now, permits, idle, idleLock, is_closed, mhandle,
                   mhLock, maint, cls, nextRes, drained>>

\* Mutant of Factory: the error path forgets the permit (mem::forget).
Factory_KeepsPermitOnError(i) ==
    /\ acq[i].pc = "create"
    /\ \E ok \in BOOLEAN :
         IF ok
         THEN /\ acq' = [acq EXCEPT ![i].pc = IF hooks.after_create
                                               THEN "after_create" ELSE "handle",
                                    ![i].res = nextRes]
              /\ nextRes' = nextRes + 1
         ELSE /\ acq' = [acq EXCEPT ![i].pc = "FactoryError", ![i].permit = FALSE]
              /\ UNCHANGED nextRes
    /\ UNCHANGED <<own, sd, ev, options, hooks, now, permits, idle, idleLock, is_closed, mhandle,
                   mhLock, maint, cls, closeCalls, drained>>

\* Mutant of Factory: the factory's error is replaced by Err("Pool closed").
Factory_MasksError(i) ==
    /\ acq[i].pc = "create"
    /\ \E ok \in BOOLEAN :
         IF ok
         THEN /\ acq' = [acq EXCEPT ![i].pc = IF hooks.after_create
                                               THEN "after_create" ELSE "handle",
                                    ![i].res = nextRes]
              /\ nextRes' = nextRes + 1
              /\ UNCHANGED permits
         ELSE /\ acq' = [acq EXCEPT ![i].pc = "PoolClosed", ![i].permit = FALSE]
              /\ permits' = permits + 1
              /\ UNCHANGED nextRes
    /\ UNCHANGED <<own, sd, ev, options, hooks, now, idle, idleLock, is_closed, mhandle,
                   mhLock, maint, cls, closeCalls, drained>>

\* factory().await?: an error drops the permit and is returned.
Factory(i) ==
    /\ acq[i].pc = "create"
    /\ \E ok \in BOOLEAN :
         IF ok
         THEN /\ acq' = [acq EXCEPT ![i].pc = IF hooks.after_create
                                               THEN "after_create" ELSE "handle",
                                    ![i].res = nextRes]
              /\ nextRes' = nextRes + 1
              /\ UNCHANGED permits
         ELSE /\ acq' = [acq EXCEPT ![i].pc = "FactoryError", ![i].permit = FALSE]
              /\ permits' = permits + 1
              /\ UNCHANGED nextRes
    /\ UNCHANGED <<own, sd, ev, options, hooks, now, idle, idleLock, is_closed, mhandle,
                   mhLock, maint, cls, closeCalls, drained>>

\* Mutant of AfterCreate: the hook-error path keeps the permit out of the gate
\* (mem::forget(permit)).
AfterCreate_ForgetsPermitOnError(i) ==
    /\ acq[i].pc = "after_create"
    /\ \E ok \in BOOLEAN :
         IF ok
         THEN /\ acq' = [acq EXCEPT ![i].pc = "handle"]
              /\ UNCHANGED closeCalls
         ELSE /\ RClose(acq[i].res)
              /\ acq' = [acq EXCEPT ![i].pc = "HookError", ![i].res = NoRes,
                                    ![i].permit = FALSE]
    /\ UNCHANGED <<own, sd, ev, options, hooks, now, permits, idle, idleLock, is_closed, mhandle,
                   mhLock, maint, cls, nextRes, drained>>

\* Mutant of AfterCreate: on the hook's error the fresh resource is dropped
\* without R::close.
AfterCreate_SkipsCloseOnError(i) ==
    /\ acq[i].pc = "after_create"
    /\ \E ok \in BOOLEAN :
         IF ok
         THEN /\ acq' = [acq EXCEPT ![i].pc = "handle"]
              /\ UNCHANGED permits
         ELSE /\ acq' = [acq EXCEPT ![i].pc = "HookError", ![i].res = NoRes,
                                    ![i].permit = FALSE]
              /\ permits' = permits + 1
    /\ UNCHANGED <<own, sd, ev, options, hooks, now, idle, idleLock, is_closed, mhandle,
                   mhLock, maint, cls, nextRes, closeCalls, drained>>

\* after_create hook: Err(e) closes the fresh resource, drops the permit and
\* returns e.
AfterCreate(i) ==
    /\ acq[i].pc = "after_create"
    /\ \E ok \in BOOLEAN :
         IF ok
         THEN /\ acq' = [acq EXCEPT ![i].pc = "handle"]
              /\ UNCHANGED <<permits, closeCalls>>
         ELSE /\ RClose(acq[i].res)
              /\ acq' = [acq EXCEPT ![i].pc = "HookError", ![i].res = NoRes,
                                    ![i].permit = FALSE]
              /\ permits' = permits + 1
    /\ UNCHANGED <<own, sd, ev, options, hooks, now, idle, idleLock, is_closed, mhandle,
                   mhLock, maint, cls, nextRes, drained>>

\* ------------------------------------------------ Drop for PoolConnection
\* The handle is dropped: the release task is spawned with the resource and
\* the permit.
DropHandle(i) ==
    /\ acq[i].pc = "handle"
    /\ acq' = [acq EXCEPT ![i].pc = "release"]
    /\ UNCHANGED <<own, sd, ev, options, hooks, now, permits, idle, idleLock, is_closed, mhandle,
                   mhLock, maint, cls, nextRes, closeCalls, drained>>

\* Mutant of ReleaseCheck: the permit is dropped at the start of the release
\* task, before the fate of the resource is decided.
ReleaseCheck_DropsPermitFirst(i) ==
    /\ acq[i].pc = "release"
    /\ \E healthy \in BOOLEAN :
         acq' = [acq EXCEPT ![i].pc =
                    IF is_closed \/ ~healthy THEN "destroy"
                    ELSE IF hooks.after_release THEN "after_release" ELSE "requeue",
                            ![i].permit = FALSE]
    /\ permits' = permits + 1
    /\ UNCHANGED <<own, sd, ev, options, hooks, now, idle, idleLock, is_closed, mhandle,
                   mhLock, maint, cls, nextRes, closeCalls, drained>>

\* Mutant of ReleaseCheck: is_closed is not consulted; only is_healthy()
\* decides.
ReleaseCheck_IgnoresClosed(i) ==
    /\ acq[i].pc = "release"
    /\ \E healthy \in BOOLEAN :
         acq' = [acq EXCEPT ![i].pc =
                    IF ~healthy THEN "destroy"
                    ELSE IF hooks.after_release THEN "after_release" ELSE "requeue"]
    /\ UNCHANGED <<own, sd, ev, options, hooks, now, permits, idle, idleLock, is_closed, mhandle,
                   mhLock, maint, cls, nextRes, closeCalls, drained>>

\* Release task: is_closed || !is_healthy() goes on to close the resource;
\* otherwise on to the after_release hook or the requeue.
ReleaseCheck(i) ==
    /\ acq[i].pc = "release"
    /\ \E healthy \in BOOLEAN :
         acq' = [acq EXCEPT ![i].pc =
                    IF is_closed \/ ~healthy THEN "destroy"
                    ELSE IF hooks.after_release THEN "after_release" ELSE "requeue"]
    /\ UNCHANGED <<own, sd, ev, options, hooks, now, permits, idle, idleLock, is_closed, mhandle,
                   mhLock, maint, cls, nextRes, closeCalls, drained>>

\* after_release hook: Ok(true) requeues; Ok(false) | Err(_) goes on to close
\* the resource.
AfterRelease(i) ==
    /\ acq[i].pc = "after_release"
    /\ \E out \in {"true", "false", "err"} :
         acq' = [acq EXCEPT ![i].pc = IF out = "true" THEN "requeue"
                                      ELSE "release_rejected"]
    /\ UNCHANGED <<own, sd, ev, options, hooks, now, permits, idle, idleLock, is_closed, mhandle,
                   mhLock, maint, cls, nextRes, closeCalls, drained>>

\* Mutant of ReleaseRejected: the rejected resource is pushed back into the
\* idle store instead of being closed.
ReleaseRejected_PushesBack(i) ==
    /\ acq[i].pc = "release_rejected"
    /\ idleLock = 0
    /\ idle' = Append(idle, [res |-> acq[i].res, since |-> now])
    /\ acq' = [acq EXCEPT ![i].pc = "done", ![i].res = NoRes, ![i].permit = FALSE]
    /\ permits' = permits + 1
    /\ sd' = AfterPoolDrop
    /\ UNCHANGED <<own, ev, options, hooks, now, idleLock, is_closed, mhandle,
                   mhLock, maint, cls, nextRes, closeCalls, drained>>

\* Ok(false) | Err(_) => { let _ = res.close().await; drop(permit); return; }
ReleaseRejected(i) ==
    /\ acq[i].pc = "release_rejected"
    /\ RClose(acq[i].res)
    /\ acq' = [acq EXCEPT ![i].pc = "done", ![i].res = NoRes, ![i].permit = FALSE]
    /\ permits' = permits + 1
    /\ sd' = AfterPoolDrop
    /\ UNCHANGED <<own, ev, options, hooks, now, idle, idleLock, is_closed, mhandle,
                   mhLock, maint, cls, nextRes, drained>>

\* The pool is closed or the resource unhealthy:
\* let _ = res.close().await; drop(permit); return.
ReleaseDestroy(i) ==
    /\ acq[i].pc = "destroy"
    /\ RClose(acq[i].res)
    /\ acq' = [acq EXCEPT ![i].pc = "done", ![i].res = NoRes, ![i].permit = FALSE]
    /\ permits' = permits + 1
    /\ sd' = AfterPoolDrop
    /\ UNCHANGED <<own, ev, options, hooks, now, idle, idleLock, is_closed, mhandle,
                   mhLock, maint, cls, nextRes, drained>>

\* Mutant of Requeue: the released resource is closed instead of being pushed
\* into the idle store.
Requeue_ClosesResource(i) ==
    /\ acq[i].pc = "requeue"
    /\ RClose(acq[i].res)
    /\ acq' = [acq EXCEPT ![i].pc = "done", ![i].res = NoRes, ![i].permit = FALSE]
    /\ permits' = permits + 1
    /\ sd' = AfterPoolDrop
    /\ UNCHANGED <<own, ev, options, hooks, now, idle, idleLock, is_closed, mhandle,
                   mhLock, maint, cls, nextRes, drained>>

\* Mutant of Requeue: the permit is not given back after the push
\* (mem::forget(permit)).
Requeue_ForgetsPermit(i) ==
    /\ acq[i].pc = "requeue"
    /\ idleLock = 0
    /\ idle' = Append(idle, [res |-> acq[i].res, since |-> now])
    /\ acq' = [acq EXCEPT ![i].pc = "done", ![i].res = NoRes, ![i].permit = FALSE]
    /\ sd' = AfterPoolDrop
    /\ UNCHANGED <<own, ev, options, hooks, now, permits, idleLock, is_closed, mhandle,
                   mhLock, maint, cls, nextRes, closeCalls, drained>>

\* idle.lock().await; idle.push_back((res, Instant::now())); drop(permit).
Requeue(i) ==
    /\ acq[i].pc = "requeue"
    /\ idleLock = 0
    /\ idle' = Append(idle, [res |-> acq[i].res, since |-> now])
    /\ acq' = [acq EXCEPT ![i].pc = "done", ![i].res = NoRes, ![i].permit = FALSE]
    /\ permits' = permits + 1
    /\ sd' = AfterPoolDrop
    /\ UNCHANGED <<own, ev, options, hooks, now, idleLock, is_closed, mhandle,
                   mhLock, maint, cls, nextRes, closeCalls, drained>>

\* ------------------------------------------- Pool::new: maintenance task
\* The spawned task runs: if weak.upgrade() succeeds the interval is created
\* and the task keeps the upgraded Arc until it returns; if every strong
\* reference is gone the task returns at once.
MaintStart ==
    /\ maint.pc = "spawned"
    /\ maint' = [maint EXCEPT !.pc = IF StrongCount > 0 THEN "first_tick"
                                     ELSE "exited"]
    /\ UNCHANGED <<own, sd, ev, options, hooks, now, permits, idle, idleLock, is_closed, mhandle,
                   mhLock, acq, cls, nextRes, closeCalls, drained>>

\* interval.tick().await absorbs the immediate tick; the loop is entered and
\* select! creates a fresh shutdown.notified().
MaintFirstTick ==
    /\ maint.pc = "first_tick"
    /\ maint' = [maint EXCEPT !.pc = "select", !.sig = FALSE]
    /\ UNCHANGED <<own, sd, ev, options, hooks, now, permits, idle, idleLock, is_closed, mhandle,
                   mhLock, acq, cls, nextRes, closeCalls, drained>>

\* select! branch: shutdown.notified() completes: break, the task ends.
MaintShutdown ==
    /\ maint.pc = "select"
    /\ maint.sig
    /\ maint' = [maint EXCEPT !.pc = "exited"]
    /\ UNCHANGED <<own, sd, ev, options, hooks, now, permits, idle, idleLock, is_closed, mhandle,
                   mhLock, acq, cls, nextRes, closeCalls, drained>>

\* select! branch: interval.tick() completes (this branch can win while the
\* Notified is ready too; that Notified is then dropped); cleanup_idle_with
\* locks the idle store and drains it into a local list.
MaintTick ==
    /\ maint.pc = "select"
    /\ idleLock = 0
    /\ maint' = [maint EXCEPT !.pc = "pass", !.sig = FALSE, !.drained = idle,
                              !.keep = <<>>]
    /\ idle' = <<>>
    /\ UNCHANGED <<own, sd, ev, options, hooks, now, permits, idleLock, is_closed, mhandle,
                   mhLock, acq, cls, nextRes, closeCalls, drained>>

\* Mutant of MaintEval: the pass looks at health only (expired is ignored).
MaintEval_IgnoresExpiry ==
    /\ maint.pc = "pass"
    /\ maint.drained # <<>>
    /\ \E healthy \in BOOLEAN :
         IF ~healthy
         THEN /\ RClose(Head(maint.drained).res)
              /\ maint' = [maint EXCEPT !.drained = Tail(@)]
         ELSE /\ maint' = [maint EXCEPT !.drained = Tail(@),
                                        !.keep = Append(@, Head(maint.drained))]
              /\ UNCHANGED closeCalls
    /\ UNCHANGED <<own, sd, ev, options, hooks, now, permits, idle, idleLock, is_closed, mhandle,
                   mhLock, acq, maint, cls, nextRes, drained>>

\* cleanup_idle_with, one drained entry: expired || !is_healthy() closes it,
\* otherwise it is kept with its timestamp.
MaintEval ==
    /\ maint.pc = "pass"
    /\ maint.drained # <<>>
    /\ \E healthy \in BOOLEAN :
         IF Expired(Head(maint.drained).since) \/ ~healthy
         THEN /\ RClose(Head(maint.drained).res)
              /\ maint' = [maint EXCEPT !.drained = Tail(@)]
         ELSE /\ maint' = [maint EXCEPT !.drained = Tail(@),
                                        !.keep = Append(@, Head(maint.drained))]
              /\ UNCHANGED closeCalls
    /\ UNCHANGED <<own, sd, ev, options, hooks, now, permits, idle, idleLock, is_closed, mhandle,
                   mhLock, acq, cls, nextRes, drained>>

\* Mutant of MaintRestore: the kept entries are put back with a fresh timestamp
\* (Instant::now() in place of since).
MaintRestore_FreshTimestamp ==
    /\ maint.pc = "pass"
    /\ maint.drained = <<>>
    /\ maint.keep # <<>> => idleLock = 0
    /\ idle' = idle \o [k \in 1..Len(maint.keep) |->
                          [res |-> maint.keep[k].res, since |-> now]]
    /\ maint' = [maint EXCEPT !.pc = "select", !.sig = FALSE, !.keep = <<>>]
    /\ UNCHANGED <<own, sd, ev, options, hooks, now, permits, idleLock, is_closed, mhandle,
                   mhLock, acq, cls, nextRes, closeCalls, drained>>

\* cleanup_idle_with, end of the pass: if !keep.is_empty() { lock;
\* idle.extend(keep) }; back in the loop, select! creates a fresh Notified.
MaintRestore ==
    /\ maint.pc = "pass"
    /\ maint.drained = <<>>
    /\ maint.keep # <<>> => idleLock = 0
    /\ idle' = idle \o maint.keep
    /\ maint' = [maint EXCEPT !.pc = "select", !.sig = FALSE, !.keep = <<>>]
    /\ UNCHANGED <<own, sd, ev, options, hooks, now, permits, idleLock, is_closed, mhandle,
                   mhLock, acq, cls, nextRes, closeCalls, drained>>

\* -------------------------------------------------------------- Pool::close
\* Mutant of CloseLatch: the flag is toggled (fetch_xor) instead of stored.
CloseLatch_Toggles(j) ==
    /\ cls[j].pc = "start"
    /\ IF j = 1 THEN TRUE ELSE cls[j - 1].pc # "start"
    /\ is_closed' = ~is_closed
    /\ cls' = [cls EXCEPT ![j].pc = "latched"]
    /\ acq' = [i \in Acquirers |->
                 IF ~is_closed /\ acq[i].pc = "wait" /\ permits = 0
                 THEN [acq[i] EXCEPT !.pendingAtClose = TRUE] ELSE acq[i]]
    /\ UNCHANGED <<own, sd, ev, options, hooks, now, permits, idle, idleLock, mhandle,
                   mhLock, maint, nextRes, closeCalls, drained>>

\* is_closed.store(true).  close() calls are numbered in the order they are
\* invoked.  An acquire that is in its bounded wait, with no permit available,
\* at the first store is marked as pending at close.
CloseLatch(j) ==
    /\ cls[j].pc = "start"
    /\ IF j = 1 THEN TRUE ELSE cls[j - 1].pc # "start"
    /\ is_closed' = TRUE
    /\ cls' = [cls EXCEPT ![j].pc = "latched"]
    /\ acq' = [i \in Acquirers |->
                 IF ~is_closed /\ acq[i].pc = "wait" /\ permits = 0
                 THEN [acq[i] EXCEPT !.pendingAtClose = TRUE] ELSE acq[i]]
    /\ UNCHANGED <<own, sd, ev, options, hooks, now, permits, idle, idleLock, mhandle,
                   mhLock, maint, nextRes, closeCalls, drained>>

\* Mutant of CloseBroadcast: one of the Notified futures that exist is
\* completed, as by a notify_one() that finds a waiter.
CloseBroadcast_NotifiesOne(j) ==
    /\ cls[j].pc = "latched"
    /\ cls' = [cls EXCEPT ![j].pc = "take"]
    /\ \/ /\ \E i \in Acquirers :
               acq[i].pc = "wait" /\ acq' = [acq EXCEPT ![i].sig = TRUE]
          /\ UNCHANGED <<maint, ev>>
       \/ /\ maint.pc = "select"
          /\ maint' = [maint EXCEPT !.sig = TRUE]
          /\ UNCHANGED <<acq, ev>>
       \/ /\ \E w \in Waiters :
               ev[w].pc = "armed" /\ ev' = [ev EXCEPT ![w].sig = TRUE]
          /\ UNCHANGED <<acq, maint>>
       \/ /\ \A i \in Acquirers : acq[i].pc # "wait"
          /\ maint.pc # "select"
          /\ \A w \in Waiters : ev[w].pc # "armed"
          /\ UNCHANGED <<acq, maint, ev>>
    /\ UNCHANGED <<own, sd, options, hooks, now, permits, idle, idleLock, is_closed, mhandle,
                   mhLock, nextRes, closeCalls, drained>>

\* shutdown.notify_waiters(): completes every Notified future that exists: the
\* ones of pending acquires, of the maintenance select! and of CloseEvent.
CloseBroadcast(j) ==
    /\ cls[j].pc = "latched"
    /\ cls' = [cls EXCEPT ![j].pc = "take"]
    /\ acq' = [i \in Acquirers |->
                 IF acq[i].pc = "wait" THEN [acq[i] EXCEPT !.sig = TRUE] ELSE acq[i]]
    /\ maint' = [maint EXCEPT !.sig = (maint.sig \/ maint.pc = "select")]
    /\ ev' = [w \in Waiters |->
                IF ev[w].pc = "armed" THEN [ev[w] EXCEPT !.sig = TRUE] ELSE ev[w]]
    /\ UNCHANGED <<own, sd, options, hooks, now, permits, idle, idleLock, is_closed, mhandle,
                   mhLock, nextRes, closeCalls, drained>>

\* maintenance_handle.lock().await.take(): the guard is a temporary of the
\* if-let scrutinee, so it is held while the handle is awaited.
CloseTake(j) ==
    /\ cls[j].pc = "take"
    /\ mhLock = 0
    /\ IF mhandle
       THEN /\ mhandle' = FALSE
            /\ mhLock' = j
            /\ cls' = [cls EXCEPT ![j].pc = "join"]
       ELSE /\ cls' = [cls EXCEPT ![j].pc = "lock_idle"]
            /\ UNCHANGED <<mhandle, mhLock>>
    /\ UNCHANGED <<own, sd, ev, options, hooks, now, permits, idle, idleLock, is_closed,
                   acq, maint, nextRes, closeCalls, drained>>

\* handle.await completes when the maintenance task has ended.
CloseJoin(j) ==
    /\ cls[j].pc = "join"
    /\ maint.pc = "exited"
    /\ mhLock' = 0
    /\ cls' = [cls EXCEPT ![j].pc = "lock_idle"]
    /\ UNCHANGED <<own, sd, ev, options, hooks, now, permits, idle, idleLock, is_closed, mhandle,
                   acq, maint, nextRes, closeCalls, drained>>

\* let mut idle = self.inner.idle.lock().await; the first idle.pop_front()
\* follows without a suspension: None ends close(), Some((r, _)) goes on to
\* r.close().await with the lock held.
CloseLock(j) ==
    /\ cls[j].pc = "lock_idle"
    /\ idleLock = 0
    /\ IF idle = <<>>
       THEN /\ cls' = [cls EXCEPT ![j].pc = "returned"]
            /\ UNCHANGED <<idle, idleLock, drained>>
       ELSE /\ cls' = [cls EXCEPT ![j].pc = "closing", ![j].res = Head(idle).res]
            /\ idle' = Tail(idle)
            /\ idleLock' = j
            /\ drained' = drained \cup {Head(idle).res}
    /\ UNCHANGED <<own, sd, ev, options, hooks, now, permits, is_closed, mhandle,
                   mhLock, acq, maint, nextRes, closeCalls>>

\* Mutant of CloseResource: an Err from r.close() ends the drain (r.close()? in
\* place of let _ =).
CloseResource_AbortsOnError(j) ==
    /\ cls[j].pc = "closing"
    /\ \E ok \in BOOLEAN :
         /\ RClose(cls[j].res)
         /\ IF idle = <<>> \/ ~ok
            THEN /\ cls' = [cls EXCEPT ![j].pc = "returned", ![j].res = NoRes]
                 /\ idleLock' = 0
                 /\ UNCHANGED <<idle, drained>>
            ELSE /\ cls' = [cls EXCEPT ![j].res = Head(idle).res]
                 /\ idle' = Tail(idle)
                 /\ drained' = drained \cup {Head(idle).res}
                 /\ UNCHANGED idleLock
    /\ UNCHANGED <<own, sd, ev, options, hooks, now, permits, is_closed, mhandle,
                   mhLock, acq, maint, nextRes>>

\* let _ = r.close().await: the result is ignored; the next idle.pop_front()
\* follows: None ends close() and releases the lock.
CloseResource(j) ==
    /\ cls[j].pc = "closing"
    /\ \E ok \in BOOLEAN :
         /\ RClose(cls[j].res)
         /\ IF idle = <<>>
            THEN /\ cls' = [cls EXCEPT ![j].pc = "returned", ![j].res = NoRes]
                 /\ idleLock' = 0
                 /\ UNCHANGED <<idle, drained>>
            ELSE /\ cls' = [cls EXCEPT ![j].res = Head(idle).res]
                 /\ idle' = Tail(idle)
                 /\ drained' = drained \cup {Head(idle).res}
                 /\ UNCHANGED idleLock
    /\ UNCHANGED <<own, sd, ev, options, hooks, now, permits, is_closed, mhandle,
                   mhLock, acq, maint, nextRes>>

\* --------------------------------------------------------------- CloseEvent
\* CloseEvent::notified(), first part: is_closed.load().  True: the future is
\* async {}, ready at once.  False: the else branch is entered.
EventLoad(w) ==
    /\ ev[w].pc = "start"
    /\ ev' = [ev EXCEPT ![w].pc = IF is_closed THEN "immediate" ELSE "loaded",
                        ![w].sawClosed = is_closed]
    /\ UNCHANGED <<own, sd, options, hooks, now, permits, idle, idleLock, is_closed, mhandle,
                   mhLock, acq, maint, cls, nextRes, closeCalls, drained>>

\* CloseEvent::notified(), else branch: notify.clone().notified_owned()
\* creates the future, which receives every later notify_waiters().  early
\* records that it was obtained before any close() began.
EventCreate(w) ==
    /\ ev[w].pc = "loaded"
    /\ ev' = [ev EXCEPT ![w].pc = "armed", ![w].sig = FALSE, ![w].early = ~is_closed]
    /\ UNCHANGED <<own, sd, options, hooks, now, permits, idle, idleLock, is_closed, mhandle,
                   mhLock, acq, maint, cls, nextRes, closeCalls, drained>>

\* The future is awaited (CloseEvent::wait) and completes: async {} at its
\* first poll, the OwnedNotified once a notify_waiters() has reached it.
EventComplete(w) ==
    /\ \/ ev[w].pc = "immediate"
       \/ ev[w].pc = "armed" /\ ev[w].sig
    /\ ev' = [ev EXCEPT ![w].pc = "completed"]
    /\ UNCHANGED <<own, sd, options, hooks, now, permits, idle, idleLock, is_closed, mhandle,
                   mhLock, acq, maint, cls, nextRes, closeCalls, drained>>

\* ---------------------------------------------- cancellation of an acquire
\* Suspension points of acquire at which its caller can drop the future: the
\* permit wait, the idle lock, is_healthy(), the before_acquire hook, the
\* factory call and the after_create hook.
CancelPcs == {"wait", "pop", "health", "before_acquire", "create", "after_create"}

\* The task that called acquire is cancelled: the future is dropped at its
\* current suspension point and its locals are dropped with it.  Dropping the
\* OwnedSemaphorePermit gives the permit back; dropping the local res: T runs
\* no pool code: R::close is not invoked and nothing is pushed.
AcquireCancel(i) ==
    /\ acq[i].pc \in CancelPcs
    /\ acq' = [acq EXCEPT ![i].pc = "Cancelled", ![i].permit = FALSE,
                          ![i].res = NoRes, ![i].since = None, ![i].sig = FALSE]
    /\ permits' = IF acq[i].permit THEN permits + 1 ELSE permits
    /\ UNCHANGED <<own, sd, ev, options, hooks, now, idle, idleLock, is_closed,
                   mhandle, mhLock, maint, cls, nextRes, closeCalls, drained>>

\* ------------------------------------------------ the acquire_timeout deadline
\* options.acquire_timeout after the first poll of timeout(..) has gone by while
\* the acquire call has not returned.  The duration is not measured: the
\* deadline may pass at any moment after the timer was created.
DeadlineExpires(i) ==
    /\ acq[i].pc \in CallPcs \ {"entered"}
    /\ ~acq[i].expired
    /\ acq' = [acq EXCEPT ![i].expired = TRUE]
    /\ UNCHANGED <<own, sd, ev, options, hooks, now, permits, idle, idleLock, is_closed,
                   mhandle, mhLock, maint, cls, nextRes, closeCalls, drained>>

\* tokio::time::timeout returns Elapsed: the deadline has passed and the
\* select! is pending.
AcquireTimeoutExpired(i) ==
    /\ acq[i].expired
    /\ AcquireTimeout(i)

\* ------------------------------------------- Clone for Pool, Drop for Pool
\* The lock of maintenance_handle is held by the shutdown task.
ShutdownTask == NumClosers + 1

\* Clone for Pool: the application clones a Pool value it holds.
OwnerClone(o) ==
    /\ own[o] = "none"
    /\ \E p \in Owners : own[p] = "held"
    /\ own' = [own EXCEPT ![o] = "held"]
    /\ UNCHANGED <<sd, ev, options, hooks, now, permits, idle, idleLock, is_closed,
                   mhandle, mhLock, acq, maint, cls, nextRes, closeCalls, drained>>

\* Drop for Pool::drop on a Pool value of the application, no acquire call
\* borrowing it: strong_count is read while the value still holds its
\* reference, and the shutdown task is spawned if it reads 1.
OwnerDrop(o) ==
    /\ own[o] = "held"
    /\ \A i \in Acquirers : ~(acq[i].via = o /\ acq[i].pc \in CallPcs)
    /\ own' = [own EXCEPT ![o] = "dropping"]
    /\ sd' = AfterPoolDrop
    /\ UNCHANGED <<ev, options, hooks, now, permits, idle, idleLock, is_closed,
                   mhandle, mhLock, acq, maint, cls, nextRes, closeCalls, drained>>

\* After drop() returns the field inner is dropped: the reference is released.
OwnerRelease(o) ==
    /\ own[o] = "dropping"
    /\ own' = [own EXCEPT ![o] = "dropped"]
    /\ UNCHANGED <<sd, ev, options, hooks, now, permits, idle, idleLock, is_closed,
                   mhandle, mhLock, acq, maint, cls, nextRes, closeCalls, drained>>

\* The shutdown task: inner.is_closed.store(true, Release).
ShutdownLatch ==
    /\ sd.pc = "latch"
    /\ is_closed' = TRUE
    /\ sd' = [sd EXCEPT !.pc = "broadcast"]
    /\ UNCHANGED <<own, ev, options, hooks, now, permits, idle, idleLock, mhandle,
                   mhLock, acq, maint, cls, nextRes, closeCalls, drained>>

\* inner.shutdown.notify_waiters(): completes every Notified future that
\* exists.
ShutdownBroadcast ==
    /\ sd.pc = "broadcast"
    /\ sd' = [sd EXCEPT !.pc = "take"]
    /\ acq' = [i \in Acquirers |->
                 IF acq[i].pc = "wait" THEN [acq[i] EXCEPT !.sig = TRUE] ELSE acq[i]]
    /\ maint' = [maint EXCEPT !.sig = (maint.sig \/ maint.pc = "select")]
    /\ ev' = [w \in Waiters |->
                IF ev[w].pc = "armed" THEN [ev[w] EXCEPT !.sig = TRUE] ELSE ev[w]]
    /\ UNCHANGED <<own, options, hooks, now, permits, idle, idleLock, is_closed,
                   mhandle, mhLock, cls, nextRes, closeCalls, drained>>

\* inner.maintenance_handle.lock().await.take(): the guard is held while the
\* handle is awaited.
ShutdownTake ==
    /\ sd.pc = "take"
    /\ mhLock = 0
    /\ IF mhandle
       THEN /\ mhandle' = FALSE
            /\ mhLock' = ShutdownTask
            /\ sd' = [sd EXCEPT !.pc = "join"]
       ELSE /\ sd' = [sd EXCEPT !.pc = "drain"]
            /\ UNCHANGED <<mhandle, mhLock>>
    /\ UNCHANGED <<own, ev, options, hooks, now, permits, idle, idleLock, is_closed,
                   acq, maint, cls, nextRes, closeCalls, drained>>

\* timeout(Duration::from_secs(5), handle).await: the maintenance task has
\* ended, or the deadline elapses with the task still running (the dropped
\* JoinHandle detaches it).  The result is ignored.
ShutdownJoin ==
    /\ sd.pc = "join"
    /\ \E elapsed \in BOOLEAN : maint.pc = "exited" \/ elapsed
    /\ mhLock' = 0
    /\ sd' = [sd EXCEPT !.pc = "drain"]
    /\ UNCHANGED <<own, ev, options, hooks, now, permits, idle, idleLock, is_closed,
                   mhandle, acq, maint, cls, nextRes, closeCalls, drained>>

\* let mut idle = inner.idle.lock().await; all = idle.drain(..).collect();
\* drop(idle): the lock is released before the first r.close().
ShutdownDrain ==
    /\ sd.pc = "drain"
    /\ idleLock = 0
    /\ idle' = <<>>
    /\ sd' = [pc |-> IF idle = <<>> THEN "done" ELSE "closing", all |-> idle]
    /\ UNCHANGED <<own, ev, options, hooks, now, permits, idleLock, is_closed,
                   mhandle, mhLock, acq, maint, cls, nextRes, closeCalls, drained>>

\* for (mut r, _) in all { let _ = r.close().await; }: one iteration; after
\* the last one the task ends and its clone of inner is dropped.
ShutdownClose ==
    /\ sd.pc = "closing"
    /\ RClose(Head(sd.all).res)
    /\ sd' = [pc |-> IF Tail(sd.all) = <<>> THEN "done" ELSE "closing",
              all |-> Tail(sd.all)]
    /\ UNCHANGED <<own, ev, options, hooks, now, permits, idle, idleLock, is_closed,
                   mhandle, mhLock, acq, maint, cls, nextRes, drained>>

\* ------------------------------------------------------------------ time
\* Time passes.  The clock is read only through since.elapsed() of an entry
\* of the idle store or of a maintenance pass, so it advances only while such
\* an entry exists.
Tick ==
    /\ now < MaxTime
    /\ idle # <<>> \/ maint.drained # <<>> \/ maint.keep # <<>>
    /\ now' = now + 1
    /\ UNCHANGED <<own, sd, ev, options, hooks, permits, idle, idleLock, is_closed, mhandle,
                   mhLock, acq, maint, cls, nextRes, closeCalls, drained>>

Next ==
    \/ \E i \in Acquirers : AcquireStart(i)
    \/ \E i \in Acquirers : AcquireArm(i)
    \/ \E i \in Acquirers : AcquirePermit(i)
    \/ \E i \in Acquirers : AcquireShutdown(i)
    \/ \E i \in Acquirers : AcquireTimeout(i)
    \/ \E i \in Acquirers : PopIdle(i)
    \/ \E i \in Acquirers : HealthCheck(i)
    \/ \E i \in Acquirers : CloseStale(i)
    \/ \E i \in Acquirers : BeforeAcquire(i)
    \/ \E i \in Acquirers : CloseRejected(i)
    \/ \E i \in Acquirers : Factory(i)
    \/ \E i \in Acquirers : AfterCreate(i)
    \/ \E i \in Acquirers : DropHandle(i)
    \/ \E i \in Acquirers : ReleaseCheck(i)
    \/ \E i \in Acquirers : AfterRelease(i)
    \/ \E i \in Acquirers : ReleaseRejected(i)
    \/ \E i \in Acquirers : ReleaseDestroy(i)
    \/ \E i \in Acquirers : Requeue(i)
    \/ MaintStart
    \/ MaintFirstTick
    \/ MaintShutdown
    \/ MaintTick
    \/ MaintEval
    \/ MaintRestore
    \/ \E j \in Closers : CloseLatch(j)
    \/ \E j \in Closers : CloseBroadcast(j)
    \/ \E j \in Closers : CloseTake(j)
    \/ \E j \in Closers : CloseJoin(j)
    \/ \E j \in Closers : CloseLock(j)
    \/ \E j \in Closers : CloseResource(j)
    \/ Tick

Spec == Init /\ [][Next]_vars

\* Scheduling: the executor polls every task that can make progress, the
\* interval keeps ticking and locks are granted; when a handle is dropped, an
\* acquire or a close() is invoked and how time passes is up to the
\* environment.
Fairness ==
    /\ \A i \in Acquirers :
         /\ WF_vars(AcquireArm(i))
         /\ WF_vars(AcquirePermit(i))
         /\ WF_vars(AcquireShutdown(i))
         /\ WF_vars(PopIdle(i))
         /\ WF_vars(HealthCheck(i))
         /\ WF_vars(CloseStale(i))
         /\ WF_vars(BeforeAcquire(i))
         /\ WF_vars(CloseRejected(i))
         /\ WF_vars(Factory(i))
         /\ WF_vars(AfterCreate(i))
         /\ WF_vars(ReleaseCheck(i))
         /\ WF_vars(AfterRelease(i))
         /\ WF_vars(ReleaseRejected(i))
         /\ WF_vars(ReleaseDestroy(i))
         /\ WF_vars(Requeue(i))
    /\ WF_vars(MaintStart)
    /\ WF_vars(MaintFirstTick)
    /\ WF_vars(MaintShutdown)
    /\ WF_vars(MaintTick)
    /\ WF_vars(MaintEval)
    /\ WF_vars(MaintRestore)
    /\ \A j \in Closers :
         /\ WF_vars(CloseBroadcast(j))
         /\ WF_vars(CloseTake(j))
         /\ WF_vars(CloseJoin(j))
         /\ WF_vars(CloseLock(j))
         /\ WF_vars(CloseResource(j))

FairSpec == Init /\ [][Next]_vars /\ Fairness

\* The pool while no close() is called on it: the steps of acquires, handles,
\* release tasks and the maintenance task, and the passing of time.  No
\* notify_waiters() is sent, so no shutdown branch of a select! is taken.
NextOpen ==
    \/ \E i \in Acquirers : AcquireStart(i)
    \/ \E i \in Acquirers : AcquireArm(i)
    \/ \E i \in Acquirers : AcquirePermit(i)
    \/ \E i \in Acquirers : AcquireTimeout(i)
    \/ \E i \in Acquirers : PopIdle(i)
    \/ \E i \in Acquirers : HealthCheck(i)
    \/ \E i \in Acquirers : CloseStale(i)
    \/ \E i \in Acquirers : BeforeAcquire(i)
    \/ \E i \in Acquirers : CloseRejected(i)
    \/ \E i \in Acquirers : Factory(i)
    \/ \E i \in Acquirers : AfterCreate(i)
    \/ \E i \in Acquirers : DropHandle(i)
    \/ \E i \in Acquirers : ReleaseCheck(i)
    \/ \E i \in Acquirers : AfterRelease(i)
    \/ \E i \in Acquirers : ReleaseRejected(i)
    \/ \E i \in Acquirers : ReleaseDestroy(i)
    \/ \E i \in Acquirers : Requeue(i)
    \/ MaintStart
    \/ MaintFirstTick
    \/ MaintTick
    \/ MaintEval
    \/ MaintRestore
    \/ Tick

\* The open pool under the scheduling of Fairness.
OpenSpec == Init /\ [][NextOpen]_vars /\ Fairness

\* The pool whose Pool values are cloned and dropped while close() is never
\* called: the steps of the open pool, of the application's Pool values and of
\* the shutdown task of Drop for Pool, whose broadcast the select! of the
\* maintenance task can take.  An acquire call borrows a Pool value, so none
\* is pending when the shutdown task runs.
NextDrop ==
    \/ NextOpen
    \/ MaintShutdown
    \/ \E o \in Owners : OwnerClone(o)
    \/ \E o \in Owners : OwnerDrop(o)
    \/ \E o \in Owners : OwnerRelease(o)
    \/ ShutdownLatch
    \/ ShutdownBroadcast
    \/ ShutdownTake
    \/ ShutdownJoin
    \/ ShutdownDrain
    \/ ShutdownClose

DropSpec == Init /\ [][NextDrop]_vars

\* The open pool whose acquire calls can be cancelled by their callers.
NextCancel ==
    \/ NextOpen
    \/ \E i \in Acquirers : AcquireCancel(i)

CancelSpec == Init /\ [][NextCancel]_vars

\* The open pool with the deadline of every acquire call: the timeout of the
\* permit wait fires only after the deadline has passed.
NextTimeout ==
    \/ \E i \in Acquirers : AcquireStart(i)
    \/ \E i \in Acquirers : AcquireArm(i)
    \/ \E i \in Acquirers : AcquirePermit(i)
    \/ \E i \in Acquirers : DeadlineExpires(i)
    \/ \E i \in Acquirers : AcquireTimeoutExpired(i)
    \/ \E i \in Acquirers : PopIdle(i)
    \/ \E i \in Acquirers : HealthCheck(i)
    \/ \E i \in Acquirers : CloseStale(i)
    \/ \E i \in Acquirers : BeforeAcquire(i)
    \/ \E i \in Acquirers : CloseRejected(i)
    \/ \E i \in Acquirers : Factory(i)
    \/ \E i \in Acquirers : AfterCreate(i)
    \/ \E i \in Acquirers : DropHandle(i)
    \/ \E i \in Acquirers : ReleaseCheck(i)
    \/ \E i \in Acquirers : AfterRelease(i)
    \/ \E i \in Acquirers : ReleaseRejected(i)
    \/ \E i \in Acquirers : ReleaseDestroy(i)
    \/ \E i \in Acquirers : Requeue(i)
    \/ MaintStart
    \/ MaintFirstTick
    \/ MaintTick
    \/ MaintEval
    \/ MaintRestore
    \/ Tick

TimeoutSpec == Init /\ [][NextTimeout]_vars

\* The pool with tasks waiting on its CloseEvent while close() is called: the
\* steps of the waiters, of close() and of the maintenance task; no acquire is
\* made, so the idle store stays empty.
NextEvent ==
    \/ \E w \in Waiters : EventLoad(w)
    \/ \E w \in Waiters : EventCreate(w)
    \/ \E w \in Waiters : EventComplete(w)
    \/ MaintStart
    \/ MaintFirstTick
    \/ MaintShutdown
    \/ MaintTick
    \/ MaintRestore
    \/ \E j \in Closers : CloseLatch(j)
    \/ \E j \in Closers : CloseBroadcast(j)
    \/ \E j \in Closers : CloseTake(j)
    \/ \E j \in Closers : CloseJoin(j)
    \/ \E j \in Closers : CloseLock(j)

\* Scheduling of the waiters: a task that awaits the future is polled.  When
\* notified() is called is up to the caller.
EventFairness ==
    \A w \in Waiters : WF_vars(EventCreate(w)) /\ WF_vars(EventComplete(w))

EventSpec == Init /\ [][NextEvent]_vars /\ Fairness /\ EventFairness

\* ------------------------------------------------------------ definitions
\* Positions at which an acquire, a handle or a release task holds a permit.
HoldingPcs ==
    {"pop", "health", "stale", "before_acquire", "rejected", "create",
     "after_create", "handle", "release", "after_release", "release_rejected",
     "destroy", "requeue"}

\* Positions of the release task while it still owns the resource.
ReleasePcs ==
    {"release", "after_release", "release_rejected", "destroy", "requeue"}

\* Positions at which an acquire call and its handle's release are over.
FinalPcs == {"PoolClosed", "Timeout", "FactoryError", "HookError", "done"}

Holders == {i \in Acquirers : acq[i].pc \in HoldingPcs}

\* Resources checked out: held by a live handle or owned by a release task.
CheckedOut == {i \in Acquirers : acq[i].pc \in {"handle"} \cup ReleasePcs}

IdleResources == {idle[k].res : k \in 1..Len(idle)}

SomeCloseReturned == \E j \in Closers : cls[j].pc = "returned"

\* close() has returned, no close() is in progress, the maintenance task has
\* ended, and every acquire, handle and release task is over.
Quiescent ==
    /\ SomeCloseReturned
    /\ \A j \in Closers : cls[j].pc \in {"start", "returned"}
    /\ \A i \in Acquirers : acq[i].pc \in FinalPcs \cup {"start"}
    /\ maint.pc = "exited"

\* ----------------------------------------------------------------- claims
\* C1. Capacity bound: in every reachable state the number of idle entries
\* plus the number of checked-out resources (live handles and resources owned
\* by unfinished release tasks) is at most max_connections.
CapacityBound == Len(idle) + Cardinality(CheckedOut) <= max_connections

\* C2. The permits held (by acquires past the bounded wait, live handles and
\* unfinished release tasks) plus the permits available equal max_connections
\* in every reachable state, so at most max_connections are held and at most
\* max_connections handles exist.
PermitAccounting ==
    /\ permits >= 0
    /\ Cardinality(Holders) + permits = max_connections
    /\ \A i \in Acquirers : acq[i].permit <=> i \in Holders
    /\ Cardinality({i \in Acquirers : acq[i].pc = "handle"}) <= max_connections

\* C2 witness: a handle holds the only permit while another acquire waits.
PermitAccountingWitness ==
    /\ permits = 0
    /\ \E i, k \in Acquirers : acq[i].pc = "handle" /\ acq[k].pc = "wait"

\* C3. No leak: once close() has returned and every handle, release task and
\* acquire is over, R::close has been invoked on every resource a factory
\* produced.
NoLeak == Quiescent => \A r \in 1..(nextRes - 1) : closeCalls[r] >= 1

\* C4. No resource enters the idle store in a step taken while the closed flag
\* is true.
NoPushAfterClosed == [][is_closed => IdleResources' \subseteq IdleResources]_vars

\* C5. The closed flag is false at construction, is true after the first step
\* of every close(), and never goes back from true to false.
ClosedMonotonic ==
    /\ ~is_closed
    /\ [][/\ is_closed => is_closed'
          /\ \A j \in Closers :
               (cls[j].pc = "start" /\ cls'[j].pc # "start") => is_closed']_vars

\* C5 witness: after one close() has returned, another close() has stored the
\* flag again and it is still true.
ClosedMonotonicWitness ==
    /\ is_closed
    /\ \E j, k \in Closers : cls[j].pc = "returned" /\ cls[k].pc = "latched"

\* C6. An acquire invoked after close() has returned fails with PoolClosed
\* and holds no permit and no resource (it never reaches the permit wait, the
\* idle store or the factory); the closed flag is true from then on.
FastFailAfterClose ==
    /\ SomeCloseReturned => is_closed
    /\ \A i \in Acquirers :
         acq[i].afterClose =>
           /\ acq[i].pc = "PoolClosed"
           /\ ~acq[i].permit
           /\ acq[i].res = NoRes
           /\ is_closed

\* C6 witness: an acquire invoked after close() returned has failed fast.
FastFailAfterCloseWitness ==
    \E i \in Acquirers : acq[i].afterClose /\ acq[i].pc = "PoolClosed"

\* C7. At the step in which a close() returns the idle store is empty and
\* R::close has been invoked on every entry close() drained, whatever the
\* results of the individual R::close calls.
CloseDrainsIdle ==
    [][\A j \in Closers :
         (cls[j].pc # "returned" /\ cls'[j].pc = "returned") =>
           /\ idle' = <<>>
           /\ \A r \in drained' : closeCalls'[r] >= 1]_vars

\* C7 witness: a close() has returned after draining and closing an entry.
CloseDrainsIdleWitness ==
    /\ SomeCloseReturned
    /\ drained # {}
    /\ \A r \in drained : closeCalls[r] >= 1

\* C8. Every close() that was invoked eventually returns.
CloseReturns ==
    \A j \in Closers : (cls[j].pc # "start") ~> (cls[j].pc = "returned")

\* C9. An acquire that is in its bounded wait when close() begins completes
\* with PoolClosed: it gets no permit, no handle and no timeout.
PendingAcquireCancelled ==
    \A i \in Acquirers :
      acq[i].pendingAtClose => acq[i].pc \in {"wait", "PoolClosed"}

\* C9, the part about permits alone: an acquire that is in its bounded wait
\* when close() begins never gets a permit (it stays waiting or completes with
\* PoolClosed or AcquireTimeout).
PendingAcquireGetsNoPermit ==
    \A i \in Acquirers :
      acq[i].pendingAtClose => acq[i].pc \in {"wait", "PoolClosed", "Timeout"}

\* C10. Release ordering: while a release task still owns its resource it
\* holds its permit, so the permit is not available to anyone else.
ReleaseOrdering ==
    /\ \A i \in Acquirers :
         (acq[i].pc \in ReleasePcs /\ acq[i].res # NoRes) => acq[i].permit
    /\ permits + Cardinality({i \in Acquirers : acq[i].pc \in ReleasePcs})
         <= max_connections

\* C10 witness: a release task is about to requeue its resource, the gate has
\* no permit, and another acquire waits for one.
ReleaseOrderingWitness ==
    /\ permits = 0
    /\ \E i, k \in Acquirers : acq[i].pc = "requeue" /\ acq[k].pc = "wait"

\* C11. Permit pairing: a step in which an acquire, handle or release task
\* gives up its permit adds exactly one permit to the gate, a step in which an
\* acquire obtains one takes exactly one, every exit (released, factory error,
\* after_create error, closed during release) is without a permit, and when no
\* acquire is past its wait, no handle is live and no release task is
\* unfinished, the gate has max_connections permits again.
PermitPairing ==
    /\ []((\A i \in Acquirers : acq[i].pc \in FinalPcs \cup {"start", "entered", "wait"})
            => permits = max_connections)
    /\ [][\A i \in Acquirers :
            /\ (acq[i].permit /\ ~acq'[i].permit) => permits' = permits + 1
            /\ (~acq[i].permit /\ acq'[i].permit) => permits' = permits - 1
            /\ (acq[i].permit <=> acq'[i].permit) =>
                  (permits' = permits \/ \E k \in Acquirers :
                                           acq[k].permit # acq'[k].permit)
            /\ acq'[i].pc \in FinalPcs => ~acq'[i].permit]_vars

\* C11 witness: one handle was released into a closed pool (its resource was
\* closed), another acquire ended with the after_create error, and all permits
\* are back.
PermitPairingWitness ==
    /\ permits = max_connections
    /\ is_closed
    /\ \E i, k \in Acquirers :
         /\ acq[i].pc = "done"
         /\ acq[k].pc = "HookError"
         /\ \E r \in Resources : closeCalls[r] >= 1

\* The number of entries of a list of (resource, since) pairs that hold r.
Occurrences(list, r) == Cardinality({k \in 1..Len(list) : list[k].res = r})

\* The number of places that hold resource r: entries of the idle store,
\* acquires, handles and release tasks, the lists of a maintenance pass, the
\* list of the shutdown task of Drop for Pool, and close() calls.
Places(r) ==
    Occurrences(idle, r) + Occurrences(maint.drained, r) + Occurrences(maint.keep, r)
      + Occurrences(sd.all, r)
      + Cardinality({i \in Acquirers : acq[i].res = r})
      + Cardinality({j \in Closers : cls[j].res = r})

\* Positions at which a hook runs on the resource of an acquire or release.
HookPcs == {"before_acquire", "after_create", "after_release"}

\* C12. Exclusive ownership: every resource a factory produced is either in
\* exactly one place (the idle store, one acquire, handle or release task, one
\* maintenance pass, one close()) and R::close has not been invoked on it, or in
\* no place after R::close was invoked on it once; a resource not yet produced
\* is nowhere; a hook runs on a resource held in that one place only.
ExclusiveOwnership ==
    /\ \A r \in Resources :
         IF r < nextRes
         THEN \/ Places(r) = 1 /\ closeCalls[r] = 0
              \/ Places(r) = 0 /\ closeCalls[r] = 1
         ELSE Places(r) = 0 /\ closeCalls[r] = 0
    /\ \A i \in Acquirers :
         /\ acq[i].pc \in HookPcs \cup {"handle"} =>
              /\ acq[i].res \in 1..(nextRes - 1)
              /\ Places(acq[i].res) = 1
         /\ acq[i].res # NoRes => acq[i].res \notin IdleResources

\* C12 witness: the after_create hook runs on a fresh resource while a
\* maintenance pass holds the other resource, taken from the idle store.
ExclusiveOwnershipWitness ==
    \E i \in Acquirers :
      /\ acq[i].pc = "after_create"
      /\ maint.keep # <<>>
      /\ maint.keep[1].res # acq[i].res

\* C13. Reuse precedence: from the moment an acquire holds its permit, is about
\* to pop, and resource r is the head of the idle store, that acquire returns r
\* and does not go on to the factory unless r was found expired or unhealthy or
\* was rejected by before_acquire; so it is never at the factory while r is an
\* entry that a maintenance pass has found healthy and unexpired (no
\* before_acquire hook being set).
ReusePrecedence ==
    \A i \in Acquirers : \A r \in Resources :
      []((acq[i].pc = "pop" /\ idle # <<>> /\ Head(idle).res = r)
           => []~(/\ acq[i].pc = "create"
                  /\ ~hooks.before_acquire
                  /\ Occurrences(maint.keep, r) = 1))

\* C13, the part about the pop alone: an acquire goes on to the factory only
\* from a pop that found the idle store empty, the factory produces a resource
\* only for an acquire that did so, and a popped entry that passes the checks
\* is the resource of the handle.
FactoryOnlyAfterEmptyPop ==
    [][\A i \in Acquirers :
         /\ acq'[i].pc = "create" /\ acq[i].pc # "create" =>
              acq[i].pc = "pop" /\ idle = <<>>
         /\ acq[i].pc = "pop" /\ idle # <<>> /\ acq'[i].pc # "pop" =>
              acq'[i].pc \in {"health", "stale"} /\ acq'[i].res = Head(idle).res
         /\ acq[i].pc \in {"health", "before_acquire"} /\ acq'[i].pc # "pop" =>
              acq'[i].res = acq[i].res /\ nextRes' = nextRes
         /\ nextRes' # nextRes =>
              \E k \in Acquirers : acq[k].pc = "create" /\ acq'[k].res = nextRes]_vars

\* The acquires that have returned a handle that is still live.
LiveHandles == {i \in Acquirers : acq[i].pc = "handle"}

\* C14. Capacity blocks until release: while max_connections handles are live
\* no step gives a further acquire a handle; and once a handle has been dropped
\* while the pool is open, an acquire pending in its bounded wait eventually
\* holds a handle with a resource, unless its deadline passes first, the pool
\* is closed, or its factory or after_create hook fails.
CapacityBlocksUntilRelease ==
    /\ [][Cardinality(LiveHandles) = max_connections =>
            LiveHandles' \subseteq LiveHandles]_vars
    /\ \A i \in Acquirers :
         (/\ acq[i].pc = "wait"
          /\ ~is_closed
          /\ \E k \in Acquirers : acq[k].pc = "release")
           ~> (\/ acq[i].pc = "handle" /\ acq[i].res # NoRes /\ acq[i].permit
               \/ acq[i].pc \in {"Timeout", "FactoryError", "HookError"}
               \/ is_closed)

\* C14 witness: the pool is open, the only permit is still held by the release
\* task of a handle that was just dropped, and another acquire is pending.
CapacityBlocksUntilReleaseWitness ==
    /\ ~is_closed
    /\ permits = 0
    /\ \E i, k \in Acquirers : acq[i].pc = "wait" /\ acq[k].pc = "release"

\* C15. close() is idempotent: whenever a close() has returned the closed flag
\* is true and the maintenance task has ended, and a step of a further close()
\* taken after one close() has returned is a no-op on the pool: it leaves the
\* idle store as it is and invokes R::close on nothing.
CloseIdempotent ==
    /\ [](SomeCloseReturned => is_closed /\ maint.pc = "exited" /\ ~mhandle)
    /\ [][\A j \in Closers :
            (SomeCloseReturned /\ cls'[j] # cls[j]) =>
              (idle' = idle /\ closeCalls' = closeCalls /\ is_closed' = is_closed)]_vars

\* C15, the part about returning: a close() in progress after another close()
\* has returned eventually returns.
SecondCloseReturns ==
    \A j \in Closers :
      (SomeCloseReturned /\ cls[j].pc # "start") ~> (cls[j].pc = "returned")

\* A resource on which R::close has been invoked is in no place: it is not in
\* the idle store, not in a handle and not owned by any task.
ClosedIsGone == \A r \in Resources : closeCalls[r] >= 1 => Places(r) = 0

\* C16. before_acquire rejection: the hook's call ends either with the handle
\* returned or with the resource rejected, never with an error result of the
\* acquire; a rejected resource is not in the idle store; the next step of the
\* acquire invokes R::close on it, pushes nothing and goes on, permit in hand,
\* to the next pop (the next idle entry, or the factory when the store is
\* empty); and a resource R::close was invoked on is never returned or
\* re-enqueued.
BeforeAcquireRejection ==
    /\ [](ClosedIsGone /\ \A i \in Acquirers :
            acq[i].pc = "rejected" =>
              acq[i].permit /\ acq[i].res \notin IdleResources \cup {NoRes})
    /\ [][\A i \in Acquirers :
            /\ acq[i].pc = "before_acquire" /\ acq'[i].pc # acq[i].pc =>
                 /\ acq'[i].pc \in {"handle", "rejected"}
                 /\ acq'[i].res = acq[i].res
            /\ acq[i].pc = "rejected" /\ acq'[i].pc # acq[i].pc =>
                 /\ closeCalls'[acq[i].res] = closeCalls[acq[i].res] + 1
                 /\ acq'[i].pc = "pop" /\ acq'[i].res = NoRes /\ acq'[i].permit
                 /\ idle' = idle
            /\ acq'[i].pc = "HookError" /\ acq[i].pc # "HookError" =>
                 acq[i].pc = "after_create"]_vars

\* C16 witness: before_acquire has rejected a popped idle resource, which the
\* acquire still owns and is about to close.
BeforeAcquireRejectionWitness ==
    \E i \in Acquirers :
      /\ acq[i].pc = "rejected"
      /\ acq[i].res # NoRes
      /\ closeCalls[acq[i].res] = 0

\* C17. after_release rejection: the hook's call ends with the release task
\* either about to requeue or holding a rejected resource, permit still held
\* and nothing pushed; the step that ends a rejecting release invokes R::close
\* on the resource, pushes nothing and returns the permit; the step that ends
\* an accepting release appends the resource at the back of the idle store
\* with the current time as its timestamp and returns the permit, which was
\* not available before that step.
AfterReleaseRejection ==
    [][\A i \in Acquirers :
         /\ acq[i].pc = "after_release" /\ acq'[i].pc # acq[i].pc =>
              /\ acq'[i].pc \in {"requeue", "release_rejected"}
              /\ acq'[i].res = acq[i].res /\ acq'[i].permit
              /\ permits' = permits /\ idle' = idle /\ closeCalls' = closeCalls
         /\ acq[i].pc = "release_rejected" /\ acq'[i].pc # acq[i].pc =>
              /\ closeCalls'[acq[i].res] = closeCalls[acq[i].res] + 1
              /\ idle' = idle
              /\ acq[i].permit /\ ~acq'[i].permit /\ permits' = permits + 1
              /\ acq'[i].pc = "done"
         /\ acq[i].pc = "requeue" /\ acq'[i].pc # acq[i].pc =>
              /\ idle' = idle \o <<[res |-> acq[i].res, since |-> now]>>
              /\ closeCalls' = closeCalls
              /\ acq[i].permit /\ ~acq'[i].permit /\ permits' = permits + 1
              /\ acq'[i].pc = "done"]_vars

\* C17 witness: after_release has rejected the resource of a dropped handle;
\* the release task still holds the resource and the only permit.
AfterReleaseRejectionWitness ==
    \E i \in Acquirers :
      /\ acq[i].pc = "release_rejected"
      /\ hooks.after_release
      /\ acq[i].permit /\ permits = 0
      /\ closeCalls[acq[i].res] = 0

\* The time the head entry of the idle store has spent in it.
HeadIdleFor == now - Head(idle).since

\* C18. Stale filter: a popped entry that has been idle strictly longer than
\* idle_timeout or max_lifetime (whichever is set) is held as stale, and one
\* idle for at most the limits goes on to its health check; an entry that
\* reports unhealthy is held as stale too; a stale entry never becomes a
\* handle: the acquire's next step invokes R::close on it and goes on, permit
\* in hand, to the next pop (the next entry, or the factory).
StaleFilter ==
    [][\A i \in Acquirers :
         /\ acq[i].pc = "pop" /\ acq'[i].pc # acq[i].pc /\ idle # <<>> =>
              /\ acq'[i].res = Head(idle).res
              /\ acq'[i].pc =
                   IF \/ options.idle_timeout # None /\ HeadIdleFor > options.idle_timeout
                      \/ options.max_lifetime # None /\ HeadIdleFor > options.max_lifetime
                   THEN "stale" ELSE "health"
         /\ acq[i].pc = "health" /\ acq'[i].pc # acq[i].pc =>
              /\ acq'[i].pc \in {"stale", "before_acquire", "handle"}
              /\ acq'[i].res = acq[i].res
         /\ acq[i].pc = "stale" /\ acq'[i].pc # acq[i].pc =>
              /\ closeCalls'[acq[i].res] = closeCalls[acq[i].res] + 1
              /\ acq'[i].pc = "pop" /\ acq'[i].res = NoRes /\ acq'[i].permit
              /\ idle' = idle
         /\ acq'[i].pc = "handle" /\ acq[i].pc # "handle" =>
              acq[i].pc \in {"health", "before_acquire", "create", "after_create"}]_vars

\* C18 witness: an acquire holds a popped entry that it found idle for longer
\* than idle_timeout and has not closed yet.
StaleFilterWitness ==
    \E i \in Acquirers :
      /\ acq[i].pc = "stale"
      /\ options.idle_timeout # None
      /\ now - acq[i].since > options.idle_timeout
      /\ closeCalls[acq[i].res] = 0

\* Resource r is an entry of the idle store that has been there for longer
\* than idle_timeout.
IdleTooLong(r) ==
    /\ options.idle_timeout # None
    /\ \E k \in 1..Len(idle) :
         idle[k].res = r /\ now - idle[k].since > options.idle_timeout

CloseEventFires ==
    /\ \A w \in Waiters :
         (ev[w].pc = "armed" /\ ev[w].early /\ is_closed) ~> (ev[w].pc = "completed")
    /\ \A w \in Waiters : (ev[w].pc = "immediate") ~> (ev[w].pc = "completed")
    /\ [](\A w \in Waiters : ev[w].pc \in {"immediate", "completed"} => is_closed)
    /\ [][\A w \in Waiters :
            ev[w].pc = "immediate" /\ ev'[w] # ev[w] => ev'[w].pc = "completed"]_vars

\* C20 witness: a future obtained before close() began has completed after
\* close() began.
CloseEventFiresWitness ==
    \E w \in Waiters :
      ev[w].pc = "completed" /\ ev[w].early /\ ~ev[w].sawClosed /\ is_closed

\* C20, second case reached: a future obtained after the closed flag was
\* observed true has completed.
CloseEventImmediateReached ==
    \E w \in Waiters : ev[w].pc = "completed" /\ ev[w].sawClosed

\* C21: implicit shutdown.  When every Pool value and every handle has been
\* dropped and close() was never called, a shutdown task has been scheduled
\* by one of the drops.
ImplicitShutdown ==
    (/\ \A o \in Owners : own[o] \in {"none", "dropped"}
     /\ \A i \in Acquirers : acq[i].pc \notin {"handle"} \cup ReleasePcs
     /\ \A j \in Closers : cls[j].pc = "start")
    => sd.pc # "none"

\* C22: round trip.  On an open pool on which nothing else has been acquired,
\* when the release task of a dropped handle whose resource is healthy and
\* accepted by after_release finishes, the idle store holds exactly that one
\* resource and every permit is available.
RoundTrip ==
    [][\A i \in Acquirers :
         (/\ acq[i].pc = "requeue"
          /\ acq'[i].pc = "done"
          /\ ~is_closed
          /\ \A k \in Acquirers \ {i} : acq[k].pc = "start")
         => /\ Len(idle') = 1
            /\ idle'[1].res = acq[i].res
            /\ permits' = max_connections]_vars

RoundTripWitness ==
    /\ \E i \in Acquirers :
         /\ acq[i].pc = "done"
         /\ \A k \in Acquirers \ {i} : acq[k].pc = "start"
    /\ Len(idle) = 1
    /\ closeCalls[idle[1].res] = 0
    /\ permits = max_connections
    /\ ~is_closed

\* C23: factory error.  When the factory call of an acquire produces no
\* resource, the acquire returns the factory's error; it returns no handle,
\* adds nothing to the idle store, closes nothing, and its permit is back in
\* the gate.
FactoryError ==
    [][\A i \in Acquirers :
         (acq[i].pc = "create" /\ acq'[i].pc # "create" /\ nextRes' = nextRes)
         => /\ acq'[i].pc = "FactoryError"
            /\ acq'[i].res = NoRes
            /\ ~acq'[i].permit
            /\ permits' = permits + 1
            /\ idle' = idle
            /\ closeCalls' = closeCalls]_vars

FactoryErrorWitness ==
    \E i \in Acquirers :
        /\ acq[i].pc = "FactoryError"
        /\ permits = max_connections
        /\ idle = <<>>

\* C24: after_create error.  When the after_create hook of an acquire does
\* not accept the fresh resource, the acquire returns the hook's error; R::close
\* is invoked on the resource, which is in no handle and not in the idle store
\* then or later; the idle store is unchanged and the permit is back in the gate.
AfterCreateError ==
    /\ [](\A i \in Acquirers : acq[i].pc = "HookError" =>
            /\ acq[i].res = NoRes /\ ~acq[i].permit
            /\ \A r \in Resources : closeCalls[r] >= 1 => Places(r) = 0)
    /\ [][\A i \in Acquirers :
            (acq[i].pc = "after_create" /\ acq'[i].pc \notin {"after_create", "handle"})
            => /\ acq'[i].pc = "HookError"
               /\ closeCalls[acq[i].res] = 0
               /\ closeCalls'[acq[i].res] = 1
               /\ \A r \in Resources : r = acq[i].res => Places(r)' = 0
               /\ permits' = permits + 1
               /\ idle' = idle]_vars

AfterCreateErrorWitness ==
    \E i \in Acquirers :
        /\ acq[i].pc = "HookError"
        /\ permits = max_connections
        /\ \E r \in Resources : closeCalls[r] = 1 /\ r \notin IdleResources
        /\ \A k \in Acquirers \ {i} : acq[k].pc = "start"

\* C25: acquire timeout.  An acquire ends with the timeout error only from
\* its wait for a permit, with no permit available and no shutdown broadcast
\* received by its Notified; it holds no permit and no resource then or later,
\* and the step invokes no factory, no R::close, and leaves the gate and the
\* idle store as they were.
AcquireTimeoutError ==
    /\ [](\A i \in Acquirers : acq[i].pc = "Timeout" =>
            ~acq[i].permit /\ acq[i].res = NoRes)
    /\ [][\A i \in Acquirers :
            /\ (acq'[i].pc = "Timeout" /\ acq[i].pc # "Timeout")
               => /\ acq[i].pc = "wait" /\ ~acq[i].sig /\ permits = 0
                  /\ permits' = permits
                  /\ idle' = idle
                  /\ nextRes' = nextRes
                  /\ closeCalls' = closeCalls
            /\ acq[i].pc = "Timeout" => acq'[i] = acq[i]]_vars

\* An acquire has timed out and the permit it waited for was given back later.
AcquireTimeoutErrorWitness ==
    \E i \in Acquirers :
        /\ acq[i].pc = "Timeout"
        /\ permits = max_connections
        /\ idle # <<>>

\* C26: release on a closed pool or of an unhealthy resource.  A release task
\* that reads is_closed true, or is_healthy() false, goes on to destroy its
\* resource: holding the permit, with the resource outside the idle store, its
\* next step invokes R::close on it, pushes nothing, returns the permit and
\* ends the task; the after_release hook is not run on that path.
ReleaseOfClosedOrUnhealthy ==
    /\ [](\A i \in Acquirers : acq[i].pc = "destroy" =>
            /\ acq[i].permit
            /\ acq[i].res \notin IdleResources \cup {NoRes}
            /\ closeCalls[acq[i].res] = 0)
    /\ [][\A i \in Acquirers :
            /\ (acq[i].pc = "release" /\ acq'[i].pc # "release")
               => /\ acq'[i].pc \in {"destroy", "after_release", "requeue"}
                  /\ is_closed => acq'[i].pc = "destroy"
                  /\ acq'[i].res = acq[i].res
                  /\ UNCHANGED <<idle, permits, closeCalls>>
            /\ (acq[i].pc = "destroy" /\ acq'[i].pc # "destroy")
               => /\ acq'[i].pc = "done"
                  /\ closeCalls'[acq[i].res] = 1
                  /\ idle' = idle
                  /\ permits' = permits + 1
                  /\ ~acq'[i].permit /\ acq'[i].res = NoRes
            /\ (acq'[i].pc = "destroy" /\ acq[i].pc # "destroy")
               => acq[i].pc = "release"]_vars

\* A release task that found the pool closed has destroyed its resource.
ReleaseOfClosedOrUnhealthyWitness ==
    \E i \in Acquirers :
        /\ acq[i].pc = "done"
        /\ is_closed
        /\ permits = max_connections
        /\ idle = <<>>
        /\ \E r \in Resources : closeCalls[r] = 1 /\ r \notin drained
        /\ \A k \in Acquirers \ {i} : acq[k].pc = "start"
        /\ ~hooks.after_release

\* C27: maintenance pass partition.  The drain of a pass takes every entry of
\* the idle store into the pass; each drained entry is looked at once, in
\* order, and is either closed by R::close (always when it is expired) or
\* appended to the kept entries with its timestamp, never both and never
\* neither; the kept entries are not closed and not in the idle store; the
\* end of the pass appends them to the idle store in their order with their
\* timestamps.
MaintenancePartition ==
    /\ [](\A k \in 1..Len(maint.keep) :
            /\ closeCalls[maint.keep[k].res] = 0
            /\ maint.keep[k].res \notin IdleResources
            /\ Occurrences(maint.drained, maint.keep[k].res) = 0)
    /\ [][/\ (maint.pc = "select" /\ maint'.pc = "pass")
             => maint'.drained = idle /\ maint'.keep = <<>> /\ idle' = <<>>
                  /\ closeCalls' = closeCalls
          /\ (maint.pc = "pass" /\ maint'.drained # maint.drained)
             => /\ maint'.drained = Tail(maint.drained)
                /\ \/ /\ closeCalls' = [closeCalls EXCEPT
                                          ![Head(maint.drained).res] = @ + 1]
                      /\ maint'.keep = maint.keep
                   \/ /\ closeCalls' = closeCalls
                      /\ maint'.keep = Append(maint.keep, Head(maint.drained))
                      /\ ~Expired(Head(maint.drained).since)
          /\ (maint.pc = "pass" /\ maint'.pc # "pass")
             => /\ maint.drained = <<>>
                /\ idle' = idle \o maint.keep
                /\ closeCalls' = closeCalls]_vars

\* A pass has looked at every drained entry and is about to put one back whose
\* timestamp is in the past, after an R::close on another resource.
MaintenancePartitionWitness ==
    /\ maint.pc = "pass"
    /\ maint.drained = <<>>
    /\ Len(maint.keep) = 1
    /\ maint.keep[1].since < now
    /\ \E r \in Resources : closeCalls[r] = 1

\* C28: maintenance stops on shutdown.  Once a close() has broadcast the
\* shutdown signal, the maintenance task eventually exits.
MaintenanceStops ==
    (\E j \in Closers : cls[j].pc \notin {"start", "latched"})
      ~> (maint.pc = "exited")

\* C29: oldest-first reuse.  In every reachable state the idle store is
\* ordered by enqueue timestamp, oldest entry at the front.
OldestFirst ==
    \A k \in 1..Len(idle) : \A l \in 1..Len(idle) :
        k < l => idle[k].since <= idle[l].since

\* C30: lock discipline.  In no reachable state does a task hold the lock of
\* the idle store while it is suspended in R::close, R::is_healthy or a hook:
\* the lock is free whenever a close() call is suspended in r.close() (the
\* other tasks take and release the lock within one step).
LockDiscipline ==
    /\ idleLock \in Closers => cls[idleLock].pc # "closing"
    /\ idleLock \notin Closers => idleLock = 0

\* C31: cancelled acquire.  In the step that cancels an acquire, a permit it
\* held is back in the gate, and a resource it had popped from the idle store
\* or received from the factory has had R::close invoked on it or is in the
\* idle store.
CancelledAcquireReleases ==
    [][\A i \in Acquirers :
         (acq'[i].pc = "Cancelled" /\ acq[i].pc # "Cancelled")
         => /\ ~acq'[i].permit
            /\ acq[i].permit => permits' = permits + 1
            /\ acq[i].res # NoRes =>
                 \/ closeCalls'[acq[i].res] >= 1
                 \/ acq[i].res \in IdleResources']_vars

\* ------------------------------------------- repeated acquires, capacity 2
\* Capacity of the pool in LoopSpec: options.max_connections of a pool on
\* which more than one handle can be out at a time (Default: 10).
LoopCapacity == 2

\* Pool::new with max_connections = LoopCapacity.
InitLoop ==
    /\ options \in OptionChoices
    /\ hooks \in HookChoices
    /\ now = 0
    /\ permits = LoopCapacity
    /\ idle = <<>>
    /\ idleLock = 0
    /\ is_closed = FALSE
    /\ mhandle = TRUE
    /\ mhLock = 0
    /\ acq = [i \in Acquirers |->
                [pc |-> "start", permit |-> FALSE, res |-> NoRes, since |-> None,
                 sig |-> FALSE, afterClose |-> FALSE, pendingAtClose |-> FALSE,
                 via |-> 0, expired |-> FALSE]]
    /\ maint = [pc |-> "spawned", sig |-> FALSE, drained |-> <<>>, keep |-> <<>>]
    /\ cls = [j \in Closers |-> [pc |-> "start", res |-> NoRes]]
    /\ nextRes = 1
    /\ closeCalls = [r \in Resources |-> 0]
    /\ drained = {}
    /\ ev = [w \in Waiters |->
               [pc |-> "start", sig |-> FALSE, early |-> FALSE, sawClosed |-> FALSE]]
    /\ own = [o \in Owners |-> IF o = 1 THEN "held" ELSE "none"]
    /\ sd = [pc |-> "none", all |-> <<>>]

\* A task whose acquire call, handle and release task are over calls acquire
\* again.
AcquireAgain(i) ==
    /\ acq[i].pc \in FinalPcs
    /\ acq' = [acq EXCEPT ![i] =
                 [pc |-> "start", permit |-> FALSE, res |-> NoRes, since |-> None,
                  sig |-> FALSE, afterClose |-> FALSE, pendingAtClose |-> FALSE,
                  via |-> 0, expired |-> FALSE]]
    /\ UNCHANGED <<own, sd, ev, options, hooks, now, permits, idle, idleLock, is_closed,
                   mhandle, mhLock, maint, cls, nextRes, closeCalls, drained>>

\* factory().await? when acquire is called any number of times: the resource
\* produced is a new one; it is named by the least id that no place holds (an
\* id never used, or the id of a resource that was destroyed), and its count
\* of R::close invocations starts at 0.
FactoryFresh(i) ==
    /\ acq[i].pc = "create"
    /\ \E ok \in BOOLEAN :
         IF ok
         THEN \E r \in Resources :
                /\ Places(r) = 0
                /\ \A q \in Resources : q < r => Places(q) # 0
                /\ acq' = [acq EXCEPT ![i].pc = IF hooks.after_create
                                                 THEN "after_create" ELSE "handle",
                                      ![i].res = r]
                /\ closeCalls' = [closeCalls EXCEPT ![r] = 0]
                /\ UNCHANGED permits
         ELSE /\ acq' = [acq EXCEPT ![i].pc = "FactoryError", ![i].permit = FALSE]
              /\ permits' = permits + 1
              /\ UNCHANGED closeCalls
    /\ UNCHANGED <<own, sd, ev, options, hooks, now, idle, idleLock, is_closed, mhandle,
                   mhLock, maint, cls, nextRes, drained>>

\* A pool of capacity LoopCapacity on which tasks acquire, drop the handle and
\* acquire again, without end; no close() is called and no maintenance tick
\* falls into the run.  There are no more tasks than permits, so no acquire
\* waits at the gate long enough to time out.
NextLoop ==
    \/ \E i \in Acquirers : AcquireStart(i)
    \/ \E i \in Acquirers : AcquireArm(i)
    \/ \E i \in Acquirers : AcquirePermit(i)
    \/ \E i \in Acquirers : PopIdle(i)
    \/ \E i \in Acquirers : HealthCheck(i)
    \/ \E i \in Acquirers : CloseStale(i)
    \/ \E i \in Acquirers : BeforeAcquire(i)
    \/ \E i \in Acquirers : CloseRejected(i)
    \/ \E i \in Acquirers : FactoryFresh(i)
    \/ \E i \in Acquirers : AfterCreate(i)
    \/ \E i \in Acquirers : DropHandle(i)
    \/ \E i \in Acquirers : ReleaseCheck(i)
    \/ \E i \in Acquirers : AfterRelease(i)
    \/ \E i \in Acquirers : ReleaseRejected(i)
    \/ \E i \in Acquirers : ReleaseDestroy(i)
    \/ \E i \in Acquirers : Requeue(i)
    \/ \E i \in Acquirers : AcquireAgain(i)
    \/ Tick

\* Scheduling in LoopSpec: every step of an acquire and of a release task is
\* taken if it stays possible; when a handle is dropped and when acquire is
\* called again is up to the application.
LoopFairness ==
    \A i \in Acquirers :
        /\ WF_vars(AcquireArm(i))
        /\ WF_vars(AcquirePermit(i))
        /\ WF_vars(PopIdle(i))
        /\ WF_vars(HealthCheck(i))
        /\ WF_vars(CloseStale(i))
        /\ WF_vars(BeforeAcquire(i))
        /\ WF_vars(CloseRejected(i))
        /\ WF_vars(FactoryFresh(i))
        /\ WF_vars(AfterCreate(i))
        /\ WF_vars(ReleaseCheck(i))
        /\ WF_vars(AfterRelease(i))
        /\ WF_vars(ReleaseRejected(i))
        /\ WF_vars(ReleaseDestroy(i))
        /\ WF_vars(Requeue(i))

LoopSpec == InitLoop /\ [][NextLoop]_vars /\ LoopFairness

\* Positions of an acquire inside its idle-reuse loop.
LoopPcs == {"pop", "health", "stale", "before_acquire", "rejected"}

\* C32: the idle-reuse loop of every acquire terminates.  Under fair
\* scheduling an acquire that is in its idle-reuse loop eventually returns a
\* handle on a reused entry or, the store empty, moves to the create path.
IdleLoopTerminates ==
    \A i \in Acquirers :
        (acq[i].pc \in LoopPcs) ~> (acq[i].pc \in {"handle", "create"})

\* C33: the close event is race-free.  Whatever the interleaving of
\* CloseEvent::notified() with close(), a future that notified() has returned
\* completes once the closed flag is true.
CloseEventRaceFree ==
    \A w \in Waiters :
        (ev[w].pc \in {"armed", "immediate"} /\ is_closed) ~> (ev[w].pc = "completed")

\* C34: acquire_timeout bounds the whole acquire call.  An acquire that holds
\* its permit (it is in the idle-reuse loop, at the factory or in after_create)
\* and whose deadline has passed takes no step other than returning the
\* timeout error.
TimeoutBoundsCall ==
    [][\A i \in Acquirers :
         (/\ acq[i].expired
          /\ acq[i].pc \in CallPcs \ {"entered", "wait"}
          /\ acq'[i] # acq[i])
         => acq'[i].pc = "Timeout"]_vars

\* C35: no checkout from a closed pool.  Once a close() has returned, no
\* acquire returns a handle and no factory is invoked.
NoCheckoutAfterClose ==
    [][SomeCloseReturned =>
         \A i \in Acquirers :
           /\ (acq'[i].pc = "handle" => acq[i].pc = "handle")
           /\ (acq[i].pc = "create" => acq'[i].pc = "create")]_vars

\* C36: a destroyed resource is never used again.  A resource on which
\* R::close has been invoked is in no handle, no acquire, no task and not in
\* the idle store, in that state and ever after, and R::close is never invoked
\* on it a second time.
DestroyedNeverReused ==
    /\ [](\A r \in Resources :
            closeCalls[r] >= 1 => closeCalls[r] = 1 /\ Places(r) = 0)
    /\ [][\A r \in Resources :
            /\ closeCalls[r] >= 1 => closeCalls'[r] = closeCalls[r]
            /\ closeCalls'[r] > closeCalls[r] => Places(r) = 1]_vars

\* C36 witness: R::close has been invoked on a resource, which is in no place,
\* and a later acquire on the open pool has returned a handle on another one.
DestroyedNeverReusedWitness ==
    /\ ~is_closed
    /\ \E r \in Resources :
         /\ closeCalls[r] = 1
         /\ Places(r) = 0
         /\ \E i \in Acquirers :
              acq[i].pc = "handle" /\ acq[i].res \notin {r, NoRes} /\ acq[i].res > r
====
